---- MODULE Spec2Model ----
(***************************************************************************)
(* Model of the data-loading core of ELMo-Rs (src/src/loader.rs) and of    *)
(* its sequence encoder (src/src/model.rs):                                *)
(*   - ELMoText::get_example  (sentence -> character windows + labels)     *)
(*   - Splitter               (train/dev/test partition of the indices)    *)
(*   - Loader                 (shuffle / next iteration protocol)          *)
(*   - UniLM::forward_t       (stacked recurrent layers with residuals)    *)
(* Strings are sequences of one-character strings.  A tensor is modelled   *)
(* by its element sequence (1-D) or its sequence of rows (2-D, the leading *)
(* batch dimension of size 1 is left implicit).  An Option is a sequence   *)
(* of length 0 (None) or 1 (Some).                                         *)
(***************************************************************************)
EXTENDS Integers, Sequences, FiniteSets, Bags, TLC

VARIABLES
    examples, token2int, max_len_token,   \* ELMoText fields
    ge_index, ge_result,                  \* last get_example call and its outcome
    n_samples, split_call, split_result,  \* Splitter input, entry point, outcome
    xs, ys, current_index,                \* Loader fields
    xs0, ys0,                             \* the lists handed to Loader::new
    returned, last_ret,                   \* items produced by next, last outcome
    shuffled_in_iter,                     \* a shuffle happened after the first next
    lm,                                   \* UniLM: number of layers and widths
    fw, fw_calls                          \* the running forward_t call, calls begun

textVars   == <<examples, token2int, max_len_token, ge_index, ge_result>>
splitVars  == <<n_samples, split_call, split_result>>
loaderVars == <<xs, ys, current_index, xs0, ys0, returned, last_ret, shuffled_in_iter>>
encVars    == <<lm, fw, fw_calls>>
vars       == <<textVars, splitVars, loaderVars, encVars>>

(***************************************************************************)
(* Bounds                                                                  *)
(***************************************************************************)
MaxChars     == 3      \* characters held by an ELMoText, over all its sentences
MaxSentences == 2      \* sentences held by an ELMoText
MaxLenToken  == 3      \* largest configured max_len_token
MaxSamples   == 130    \* largest n_samples given to the Splitter
MaxFullPerm  == 2      \* up to this length every permutation is drawn
MaxExamples  == 3      \* examples held by a Loader
MaxLayers    == 3      \* recurrent layers of a UniLM
MaxWidth     == 2      \* largest in_dim, hidden_dim, out_dim and input width
MaxDim       == 2      \* largest batch size and sequence length
MaxCalls     == 2      \* forward_t calls on one UniLM

(***************************************************************************)
(* Generic helpers                                                         *)
(***************************************************************************)
None    == <<>>
Some(v) == <<v>>

SeqsUpTo(S, n) == UNION {[1..k -> S] : k \in 0..n}

RECURSIVE Flatten(_)
Flatten(ss) == IF ss = <<>> THEN <<>> ELSE Head(ss) \o Flatten(Tail(ss))

RECURSIVE Repeat(_, _)
Repeat(v, n) == IF n <= 0 THEN <<>> ELSE <<v>> \o Repeat(v, n - 1)

Prefix(s, n) == SubSeq(s, 1, IF n < Len(s) THEN n ELSE Len(s))

(***************************************************************************)
(* ELMoText: vocabulary and configuration                                  *)
(***************************************************************************)
char_start == "$"
char_end   == "^"
char_unk   == "?"
char_pad   == " "
str_unk    == <<"U", "N", "K">>

Alphabet   == {"a", " ", "\t"}
Whitespace == {" ", "\t"}

\* character -> id; "\t" is a character without an entry
char2int == [c \in {" ", "a", "$", "^", "?"} |->
               CASE c = " " -> 0 [] c = "a" -> 1 [] c = "$" -> 2
                 [] c = "^" -> 3 [] c = "?" -> 4]

TokenKeys == {str_unk, <<"a">>}
TokenIds  == {1, 2, 257}
U8Mod     == 256

\* the lists of at most k sentences that hold at most budget characters
RECURSIVE Corpora(_, _)
Corpora(k, budget) ==
    IF k = 0 THEN {<<>>}
    ELSE {<<>>} \cup UNION { { <<s>> \o rest : rest \in Corpora(k - 1, budget - Len(s)) }
                             : s \in SeqsUpTo(Alphabet, budget) }

(***************************************************************************)
(* libtorch operations used by get_example.  A panic is the value Panic.   *)
(***************************************************************************)
Panic(why) == [kind |-> "Panic", why |-> why, inputs |-> <<>>, labels |-> <<>>, windows |-> <<>>]
Err(why)   == [kind |-> "Err",   why |-> why, inputs |-> <<>>, labels |-> <<>>, windows |-> <<>>]
Idle       == [kind |-> "Idle",  why |-> "",  inputs |-> <<>>, labels |-> <<>>, windows |-> <<>>]

\* Tensor::concat(ts, 0) of 1-D tensors: fails on an empty list
ConcatOk(ts) == ts # <<>>
Concat(ts)   == Flatten(ts)

\* reshape(&[1, -1, w]) of a 1-D tensor: rows of width w
ReshapeOk(flat, w) == w > 0 /\ Len(flat) % w = 0
Reshape(flat, w)   == [r \in 1..(Len(flat) \div w) |-> SubSeq(flat, (r - 1) * w + 1, r * w)]

(***************************************************************************)
(* get_example, step by step                                               *)
(***************************************************************************)
\* str::split(" "): the pieces between single spaces, empty pieces kept
RECURSIVE split(_)
split(s) ==
    IF s = <<>> THEN << <<>> >>
    ELSE LET rest == split(Tail(s)) IN
         IF Head(s) = " " THEN << <<>> >> \o rest
         ELSE << <<Head(s)>> \o Head(rest) >> \o Tail(rest)

RECURSIVE trim_start(_)
trim_start(t) == IF t # <<>> /\ Head(t) \in Whitespace THEN trim_start(Tail(t)) ELSE t

RECURSIVE trim_end(_)
trim_end(t) == IF t # <<>> /\ t[Len(t)] \in Whitespace
               THEN trim_end(SubSeq(t, 1, Len(t) - 1)) ELSE t

trim(t) == trim_end(trim_start(t))

tokens_of(example) == LET parts == split(example) IN [i \in 1..Len(parts) |-> trim(parts[i])]

\* the closure map_chars_to_ints
map_chars_to_ints_pad_from_chars(token, mlt) ==
    LET char_ids  == [i \in 1..Len(token) |->
                        IF token[i] \in DOMAIN char2int THEN char2int[token[i]]
                        ELSE char2int[char_unk]]
        token_len == Len(token) - 2
        pad       == char2int[char_pad]
    IN  IF mlt = None THEN char_ids
        ELSE IF mlt[1] <= token_len THEN Prefix(char_ids, mlt[1])
        ELSE char_ids \o Repeat(pad, mlt[1] - token_len)

\* variant: the padding is put in front of the character ids
map_chars_to_ints_pad_left(token, mlt) ==
    LET char_ids  == [i \in 1..Len(token) |->
                        IF token[i] \in DOMAIN char2int THEN char2int[token[i]]
                        ELSE char2int[char_unk]]
        token_len == Len(char_ids)
        pad       == char2int[char_pad]
    IN  IF mlt = None THEN char_ids
        ELSE IF mlt[1] <= token_len THEN Prefix(char_ids, mlt[1])
        ELSE Repeat(pad, mlt[1] - token_len) \o char_ids

map_chars_to_ints(token, mlt) ==
    LET char_ids  == [i \in 1..Len(token) |->
                        IF token[i] \in DOMAIN char2int THEN char2int[token[i]]
                        ELSE char2int[char_unk]]
        token_len == Len(char_ids)
        pad       == char2int[char_pad]
    IN  IF mlt = None THEN char_ids
        ELSE IF mlt[1] <= token_len THEN Prefix(char_ids, mlt[1])
        ELSE char_ids \o Repeat(pad, mlt[1] - token_len)

\* labels before the shift: one u8 tensor per token
labels_of(tokens, t2i) ==
    [i \in 1..Len(tokens) |->
        LET label == IF tokens[i] \in DOMAIN t2i THEN t2i[tokens[i]] ELSE t2i[str_unk]
        IN  label % U8Mod]

\* inputs before the shift: one window per token, wrapped in the sentinels
windows_of(tokens, mlt) ==
    [i \in 1..Len(tokens) |-> map_chars_to_ints(<<char_start>> \o tokens[i] \o <<char_end>>, mlt)]

\* labels.remove(0), inputs.remove(n-1)
shift_labels_keep_first(labels) == labels
shift_labels(labels) == Tail(labels)
shift_inputs(inputs) == SubSeq(inputs, 1, Len(inputs) - 1)

\* the body of get_example once the sentence has been found
get_example_at(exs, t2i, mlt, index) ==
    LET tokens  == tokens_of(exs[index + 1])
        windows == windows_of(tokens, mlt)
        inputs  == shift_inputs(windows)
        labels  == shift_labels(labels_of(tokens, t2i))
        P(why)  == [Panic(why) EXCEPT !.windows = windows]
    IN  IF str_unk \notin DOMAIN t2i THEN Panic("didn't find unk symbol")
        ELSE IF char_unk \notin DOMAIN char2int THEN Panic("didn't find unk char symbol")
        ELSE IF char_pad \notin DOMAIN char2int THEN Panic("didn't find pad symbol")
        ELSE IF Len(inputs) # Len(labels) THEN P("assert_eq lengths")
        ELSE IF ~ConcatOk(inputs) THEN P("concat of an empty list")
        ELSE IF mlt = None THEN P("unwrap on None")
        ELSE IF ~ReshapeOk(Concat(inputs), mlt[1]) THEN P("reshape")
        ELSE LET inputs_tensor == Reshape(Concat(inputs), mlt[1])
                 labels_tensor == Concat([i \in 1..Len(labels) |-> <<labels[i]>>])
             IN  IF Len(inputs_tensor) # Len(labels_tensor) THEN P("assert_eq shapes")
                 ELSE [kind |-> "Ok", why |-> "", inputs |-> inputs_tensor,
                       labels |-> labels_tensor, windows |-> windows]

\* variant: an index past the end wraps around instead of failing
get_example_wrap(exs, t2i, mlt, index) ==
    IF exs = <<>> THEN Err("example index not found in examples indices")
    ELSE get_example_at(exs, t2i, mlt, index % Len(exs))

\* self.examples.get(index).ok_or(..)? and then the body
get_example(exs, t2i, mlt, index) ==
    IF index >= Len(exs) THEN Err("example index not found in examples indices")
    ELSE get_example_at(exs, t2i, mlt, index)

(***************************************************************************)
(* Values of the parts of the state a specification does not exercise      *)
(***************************************************************************)
SplitIdle  == [kind |-> "Idle", why |-> "", sizes |-> <<>>, parts |-> <<>>]

LoaderIdleInit ==
    /\ xs = <<>> /\ ys = <<>> /\ xs0 = <<>> /\ ys0 = <<>>
    /\ current_index = -1 /\ returned = <<>> /\ last_ret = "none_yet"
    /\ shuffled_in_iter = FALSE

SplitIdleInit ==
    /\ n_samples = 1 /\ split_call = "none" /\ split_result = SplitIdle

NoTensor  == [shape |-> <<>>, layer |-> -1, plus |-> <<>>]
ZeroState == [origin |-> "zeros", layer |-> -1]
FwIdle    == [pc |-> "idle", why |-> "", j |-> 0, xs |-> NoTensor, out |-> NoTensor,
              state |-> ZeroState, outputs |-> <<>>, starts |-> <<>>,
              result |-> [shape |-> <<>>, blocks |-> <<>>]]

EncIdleInit ==
    /\ lm = [n_lstm_layers |-> 1, in_dim |-> 1, hidden_dim |-> 1, out_dim |-> 1]
    /\ fw = FwIdle /\ fw_calls = 0

TextIdleInit ==
    /\ examples = <<>> /\ token2int = [k \in TokenKeys |-> 1]
    /\ max_len_token = None /\ ge_index = 0 /\ ge_result = Idle

(***************************************************************************)
(* Specification of the ELMoText builder: a builder is constructed from    *)
(* some sentences, a token vocabulary and a max_len_token; get_example is  *)
(* then called with arbitrary indices.                                     *)
(***************************************************************************)
TextInit ==
    /\ examples \in Corpora(MaxSentences, MaxChars)
    /\ token2int \in [TokenKeys -> TokenIds]
    /\ max_len_token \in {None} \cup {Some(m) : m \in 1..MaxLenToken}
    /\ ge_index = 0
    /\ ge_result = Idle
    /\ SplitIdleInit
    /\ LoaderIdleInit
    /\ EncIdleInit

\* ELMoText::new keeps its arguments; get_example takes &self
GetExample ==
    /\ \E index \in 0..MaxSentences :
          /\ ge_index' = index
          /\ ge_result' = get_example(examples, token2int, max_len_token, index)
    /\ UNCHANGED <<examples, token2int, max_len_token>>
    /\ UNCHANGED <<splitVars, loaderVars, encVars>>

TextNext == GetExample

SpecText == TextInit /\ [][TextNext]_vars

(***************************************************************************)
(* Tensor::randperm: the permutations that are drawn.  Up to MaxFullPerm   *)
(* elements every permutation of 0..n-1; above that the rotations of the   *)
(* identity and of its reversal.                                           *)
(***************************************************************************)
AllPerms(n) == {p \in [1..n -> 0..(n - 1)] : \A i, j \in 1..n : p[i] = p[j] => i = j}

RotPerms(n) == {[i \in 1..n |-> (i - 1 + r) % n] : r \in 0..(n - 1)}
                 \cup {[i \in 1..n |-> (n - i + r) % n] : r \in 0..(n - 1)}

Permutations_of(n) == IF n <= MaxFullPerm THEN AllPerms(n) ELSE RotPerms(n)

(***************************************************************************)
(* f64 arithmetic of get_split_train_dev_test_sizes.  A double is          *)
(* mantissa * 2^-exp with a 53-bit mantissa; 0.8 and 0.1 have the same     *)
(* mantissa 0x1999999999999A.  Large naturals are little-endian sequences  *)
(* of 18-bit limbs.  ratio * (n as f64) is the exact product rounded to 53 *)
(* significant bits (ties to even); `as i64` drops the fraction.           *)
(***************************************************************************)
LimbBits == 18
MantBits == 53
Pow2(k)  == 2 ^ k
Base     == Pow2(LimbBits)

F64Mantissa == <<104858, 157286, 104857>>   \* 0x1999999999999A
ExpRatio0   == 53                           \* 0.8 = F64Mantissa * 2^-53
ExpRatio1   == 56                           \* 0.1 = F64Mantissa * 2^-56

RECURSIVE Normalize(_, _)
Normalize(limbs, carry) ==
    IF limbs = <<>> THEN (IF carry = 0 THEN <<>> ELSE <<carry>>)
    ELSE LET v == Head(limbs) + carry
         IN  <<v % Base>> \o Normalize(Tail(limbs), v \div Base)

MulSmall(limbs, n) == Normalize([i \in 1..Len(limbs) |-> limbs[i] * n], 0)

RECURSIVE IntBitLen(_)
IntBitLen(v) == IF v = 0 THEN 0 ELSE 1 + IntBitLen(v \div 2)

RECURSIVE BitLen(_)
BitLen(limbs) ==
    IF limbs = <<>> THEN 0
    ELSE IF limbs[Len(limbs)] = 0 THEN BitLen(SubSeq(limbs, 1, Len(limbs) - 1))
    ELSE LimbBits * (Len(limbs) - 1) + IntBitLen(limbs[Len(limbs)])

\* round to MantBits significant bits, ties to even (at most LimbBits bits dropped)
RoundToMantissa(limbs) ==
    LET s == BitLen(limbs) - MantBits IN
    IF s <= 0 THEN limbs
    ELSE LET r    == limbs[1] % Pow2(s)
             half == Pow2(s - 1)
             odd  == IF s < LimbBits THEN (limbs[1] \div Pow2(s)) % 2 = 1
                     ELSE limbs[2] % 2 = 1
             up   == r > half \/ (r = half /\ odd)
         IN  Normalize([limbs EXCEPT ![1] = limbs[1] - r + (IF up THEN Pow2(s) ELSE 0)], 0)

\* floor(limbs / 2^e) for 2*LimbBits <= e, result below 2^31
TruncShift(limbs, e) ==
    LET hi == [i \in 1..4 |-> IF i <= Len(limbs) THEN limbs[i] ELSE 0]
    IN  (hi[3] + hi[4] * Base) \div Pow2(e - 2 * LimbBits)

\* (ratio * n_samples as f64) as i64
ratio_times(e, n) == TruncShift(RoundToMantissa(MulSmall(F64Mantissa, n)), e)

(***************************************************************************)
(* Splitter                                                                *)
(***************************************************************************)
Int8Min == -128
Int8Max == 127
ToInt8(v) == ((v - Int8Min) % (Int8Max - Int8Min + 1)) + Int8Min

Sum3(q) == q[1] + q[2] + q[3]

\* variant: the third size is taken from its ratio as well
get_split_train_dev_test_sizes_ratio3(n) ==
    <<ratio_times(ExpRatio0, n), ratio_times(ExpRatio1, n), ratio_times(ExpRatio1, n)>>

get_split_train_dev_test_sizes(n) ==
    LET a == ratio_times(ExpRatio0, n)
        b == ratio_times(ExpRatio1, n)
    IN  <<a, b, n - (a + b)>>

\* Tensor::split_with_sizes(sizes, 0)
split_with_sizes(t, sizes) ==
    << SubSeq(t, 1, sizes[1]),
       SubSeq(t, sizes[1] + 1, sizes[1] + sizes[2]),
       SubSeq(t, sizes[1] + sizes[2] + 1, sizes[1] + sizes[2] + sizes[3]) >>

SplitPanic(why, sizes) == [kind |-> "Panic", why |-> why, sizes |-> sizes, parts |-> <<>>]

\* the outcomes of get_split_train_dev_test_indices(n): the assertion on n,
\* the sizes, then randperm with 8-bit elements.  When n-1 does not fit the
\* element type libtorch either rejects the call or stores the wrapped
\* values, depending on the build; both outcomes are kept.
split_indices_outcomes(n) ==
    IF ~(n > 0) THEN {SplitPanic("number of samples for training most be positive", <<>>)}
    ELSE LET sizes == get_split_train_dev_test_sizes(n) IN
         IF Sum3(sizes) # n
         THEN {SplitPanic("number of samples must equate to sum of splits", sizes)}
         ELSE LET stored == {[i \in 1..n |-> ToInt8(p[i])] : p \in Permutations_of(n)}
                  oks    == {[kind |-> "Ok", why |-> "", sizes |-> sizes,
                              parts |-> split_with_sizes(t, sizes)] : t \in stored}
              IN  IF n - 1 <= Int8Max THEN oks
                  ELSE oks \cup {SplitPanic("randperm: n does not fit Int8", sizes)}

\* sentences.get(*i as usize).unwrap() for every index of every part; a
\* sentence is identified by its position
lookup_sentences(r, n) ==
    IF r.kind # "Ok" THEN r
    ELSE IF \E k \in 1..3 : \E i \in 1..Len(r.parts[k]) :
                r.parts[k][i] < 0 \/ r.parts[k][i] >= n
         THEN SplitPanic("unwrap on None", r.sizes)
         ELSE r

(***************************************************************************)
(* Specification of the Splitter: a corpus of n_samples sentences is split *)
(* through either public entry point.                                      *)
(***************************************************************************)
SplitInit ==
    /\ n_samples \in 0..MaxSamples
    /\ split_call = "none"
    /\ split_result = SplitIdle
    /\ TextIdleInit
    /\ LoaderIdleInit
    /\ EncIdleInit

GetSplitIndices ==
    /\ split_call = "none"
    /\ split_call' = "indices"
    /\ split_result' \in split_indices_outcomes(n_samples)
    /\ UNCHANGED <<n_samples, textVars, loaderVars, encVars>>

GetSplitSentences ==
    /\ split_call = "none"
    /\ split_call' = "sentences"
    /\ \E r \in split_indices_outcomes(n_samples) :
          split_result' = lookup_sentences(r, n_samples)
    /\ UNCHANGED <<n_samples, textVars, loaderVars, encVars>>

SplitNext == GetSplitIndices \/ GetSplitSentences

SpecSplit == SplitInit /\ [][SplitNext]_vars

(***************************************************************************)
(* Loader.  A tensor held by the loader is an opaque value; shallow_clone  *)
(* and to_device keep the value.                                           *)
(***************************************************************************)
InputTensors == {"x1", "x2"}
LabelTensors == {"y1", "y2"}

\* the list reordered by a permutation of 0..n-1
Reorder(list, perm) == [i \in 1..Len(perm) |-> list[perm[i] + 1]]

\* Loader::new: assert_eq!(xs.len(), ys.len()), current_index = -1
Init ==
    /\ \E n \in 0..MaxExamples :
          /\ xs \in [1..n -> InputTensors]
          /\ ys \in [1..n -> LabelTensors]
    /\ xs0 = xs /\ ys0 = ys
    /\ current_index = -1
    /\ returned = <<>>
    /\ last_ret = "none_yet"
    /\ shuffled_in_iter = FALSE
    /\ TextIdleInit
    /\ SplitIdleInit
    /\ EncIdleInit

\* variant: the two lists are reordered by two separately drawn permutations
shuffle_two_permutations ==
    /\ last_ret # "panic"
    /\ \E p1 \in Permutations_of(Len(xs)) : \E p2 \in Permutations_of(Len(ys)) :
          /\ xs' = Reorder(xs, p1)
          /\ ys' = Reorder(ys, p2)
    /\ shuffled_in_iter' = (shuffled_in_iter \/ current_index >= 0)
    /\ UNCHANGED <<current_index, xs0, ys0, returned, last_ret, textVars, splitVars, encVars>>

\* variant: shuffling also rewinds the position counter
shuffle_and_rewind ==
    /\ last_ret # "panic"
    /\ \E permutation \in Permutations_of(Len(xs)) :
          /\ xs' = Reorder(xs, permutation)
          /\ ys' = Reorder(ys, permutation)
    /\ current_index' = -1
    /\ shuffled_in_iter' = (shuffled_in_iter \/ current_index >= 0)
    /\ UNCHANGED <<xs0, ys0, returned, last_ret, textVars, splitVars, encVars>>

\* Loader::shuffle
shuffle ==
    /\ last_ret # "panic"
    /\ \E permutation \in Permutations_of(Len(xs)) :
          /\ xs' = Reorder(xs, permutation)
          /\ ys' = Reorder(ys, permutation)
    /\ shuffled_in_iter' = (shuffled_in_iter \/ current_index >= 0)
    /\ UNCHANGED <<current_index, xs0, ys0, returned, last_ret, textVars, splitVars, encVars>>

\* variant: the position is read before it is advanced
next_index_then_increment ==
    /\ last_ret # "panic"
    /\ current_index' = current_index + 1
    /\ IF 0 <= current_index /\ current_index < Len(xs)
       THEN /\ returned' = Append(returned, <<xs[current_index + 1], ys[current_index + 1]>>)
            /\ last_ret' = "some"
       ELSE /\ returned' = returned
            /\ last_ret' = "panic"
    /\ UNCHANGED <<xs, ys, xs0, ys0, shuffled_in_iter, textVars, splitVars, encVars>>

\* Iterator::next for Loader: advance, then get(..).unwrap() on both lists
next ==
    /\ last_ret # "panic"
    /\ current_index' = current_index + 1
    /\ IF current_index' < Len(xs) /\ current_index' < Len(ys)
       THEN /\ returned' = Append(returned, <<xs[current_index' + 1], ys[current_index' + 1]>>)
            /\ last_ret' = "some"
       ELSE /\ returned' = returned
            /\ last_ret' = "panic"
    /\ UNCHANGED <<xs, ys, xs0, ys0, shuffled_in_iter, textVars, splitVars, encVars>>

Next == shuffle \/ next

Spec == Init /\ [][Next]_vars

(***************************************************************************)
(* UniLM (src/src/model.rs).  A tensor is its shape (batch, sequence,      *)
(* width), the layer that produced it (-1: the encoder input) and the      *)
(* layers whose stored output was added to it in place.  An LSTM state is  *)
(* either the zeros made at the start of forward_t or the final state      *)
(* returned by a layer's seq_init.  The checks libtorch makes on the      *)
(* widths are kept; the values the layers compute are not.                 *)
(***************************************************************************)
FwPanic(why) == [fw EXCEPT !.pc = "panic", !.why = why]

\* UniLM::new: n_lstm_layers LSTMs of in_dim -> hidden_dim, one Linear
\* hidden_dim -> out_dim
EncInit ==
    /\ lm \in [n_lstm_layers : 1..MaxLayers, in_dim : 1..MaxWidth,
               hidden_dim : 1..MaxWidth, out_dim : 1..MaxWidth]
    /\ fw = FwIdle
    /\ fw_calls = 0
    /\ TextIdleInit
    /\ SplitIdleInit
    /\ LoaderIdleInit

\* forward_t up to the loop: h, c zeros, state, out = xs, outputs = [xs]
ForwardBegin ==
    /\ fw.pc \in {"idle", "done"}
    /\ fw_calls < MaxCalls
    /\ fw_calls' = fw_calls + 1
    /\ \E b \in 1..MaxDim : \E sl \in 1..MaxDim : \E w \in 1..MaxWidth :
          LET x == [shape |-> <<b, sl, w>>, layer |-> -1, plus |-> <<>>] IN
          fw' = [pc |-> "running", why |-> "", j |-> 0, xs |-> x, out |-> x,
                 state |-> ZeroState, outputs |-> <<x>>, starts |-> <<>>,
                 result |-> [shape |-> <<>>, blocks |-> <<>>]]
    /\ UNCHANGED <<lm, textVars, splitVars, loaderVars>>

\* one iteration of the loop over lstm_layers, for layer fw.j
ForwardLayer ==
    /\ fw.pc = "running"
    /\ fw.j < lm.n_lstm_layers
    /\ LET j        == fw.j
           starts   == Append(fw.starts, [layer |-> j, state |-> fw.state])
           \* lstm.seq_init(&out, &state)
           out_lstm == [shape |-> <<fw.out.shape[1], fw.out.shape[2], lm.hidden_dim>>,
                        layer |-> j, plus |-> <<>>]
           state1   == [origin |-> "final", layer |-> j]
           \* out.apply(&self.to_rep)
           out_rep  == [out_lstm EXCEPT !.shape[3] = lm.out_dim]
           prev     == fw.outputs[j + 1]
           \* out += outputs[j]; the pushed shallow clone shares the storage
           out_add  == [out_rep EXCEPT !.plus = <<prev.layer>>]
       IN  IF fw.out.shape[3] # lm.in_dim
           THEN fw' = [FwPanic("lstm: input width is not in_dim") EXCEPT !.starts = starts]
           ELSE IF prev.shape[3] # lm.out_dim /\ prev.shape[3] # 1
           THEN fw' = [FwPanic("add_: shapes cannot be broadcast") EXCEPT
                          !.starts = starts, !.state = state1,
                          !.outputs = Append(fw.outputs, out_rep)]
           ELSE fw' = [fw EXCEPT !.j = j + 1, !.out = out_add, !.state = state1,
                          !.starts = starts, !.outputs = Append(fw.outputs, out_add)]
    /\ UNCHANGED <<lm, fw_calls, textVars, splitVars, loaderVars>>

\* after the loop: Tensor::concat(&outputs, 0)
ForwardEnd ==
    /\ fw.pc = "running"
    /\ fw.j = lm.n_lstm_layers
    /\ IF \E i \in 1..Len(fw.outputs) :
             <<fw.outputs[i].shape[2], fw.outputs[i].shape[3]>>
                # <<fw.outputs[1].shape[2], fw.outputs[1].shape[3]>>
       THEN fw' = FwPanic("concat: sizes of tensors must match")
       ELSE fw' = [fw EXCEPT !.pc = "done",
                     !.result = [shape  |-> <<Len(fw.outputs) * fw.xs.shape[1],
                                              fw.xs.shape[2], fw.xs.shape[3]>>,
                                 blocks |-> fw.outputs]]
    /\ UNCHANGED <<lm, fw_calls, textVars, splitVars, loaderVars>>

EncNext == ForwardBegin \/ ForwardLayer \/ ForwardEnd

SpecEnc == EncInit /\ [][EncNext]_vars

(***************************************************************************)
(* Properties of get_example                                               *)
(***************************************************************************)
GeCalled   == ge_result.kind # "Idle"
GeInRange  == ge_index < Len(examples)
GeSentence == examples[ge_index + 1]
\* number of pieces a sentence splits into: one more than its spaces
NumTokens(s) == 1 + Cardinality({i \in 1..Len(s) : s[i] = " "})
\* the id the vocabulary assigns to a token
TokenId(t) == IF t \in DOMAIN token2int THEN token2int[t] ELSE token2int[str_unk]

\* C1: for a sentence that splits into k >= 2 tokens (builder configured with
\* a max_len_token), get_example succeeds and both the input and the label
\* sequence have exactly k-1 positions; the inputs are the windows of the
\* first k-1 tokens.  Whenever get_example succeeds the two lengths are k-1.
C1_ShiftedLengths ==
    (GeCalled /\ GeInRange /\ NumTokens(GeSentence) >= 2) =>
        /\ max_len_token # None => ge_result.kind = "Ok"
        /\ ge_result.kind = "Ok" =>
              /\ Len(ge_result.inputs) = NumTokens(GeSentence) - 1
              /\ Len(ge_result.labels) = NumTokens(GeSentence) - 1
              /\ \A i \in 1..Len(ge_result.inputs) : ge_result.inputs[i] = ge_result.windows[i]

C1_Witness ==
    /\ GeCalled /\ GeInRange /\ ge_result.kind = "Ok"
    /\ NumTokens(GeSentence) = 3
    /\ Len(ge_result.inputs) = 2 /\ Len(ge_result.labels) = 2

\* C2: for a sentence with fewer than 2 tokens get_example returns an empty
\* example (zero-length input and label) as a successful result.
C2_EmptyExample ==
    (GeCalled /\ GeInRange /\ max_len_token # None /\ NumTokens(GeSentence) < 2) =>
        /\ ge_result.kind = "Ok"
        /\ ge_result.inputs = <<>>
        /\ ge_result.labels = <<>>

\* C3: the label sequence is, position by position, the vocabulary id of
\* tokens 2..k (unknown-token id for absent tokens), for every id value.
C3_LabelsAreIds ==
    (GeCalled /\ GeInRange /\ ge_result.kind = "Ok") =>
        LET tokens == tokens_of(GeSentence) IN
        /\ Len(ge_result.labels) = Len(tokens) - 1
        /\ \A i \in 1..Len(ge_result.labels) : ge_result.labels[i] = TokenId(tokens[i + 1])

\* C4: when max_len_token is configured, every character window built for
\* a token has exactly max_len_token elements, whatever the token length.
C4_WindowWidth ==
    (GeCalled /\ GeInRange /\ max_len_token # None) =>
        /\ Len(ge_result.windows) = NumTokens(GeSentence)
        /\ \A i \in 1..Len(ge_result.windows) : Len(ge_result.windows[i]) = max_len_token[1]

\* one call that both truncated a window and padded another
C4_Witness ==
    /\ GeCalled /\ GeInRange /\ max_len_token # None /\ ge_result.kind = "Ok"
    /\ LET tokens == tokens_of(GeSentence) IN
          /\ \E i \in 1..Len(tokens) : Len(tokens[i]) + 2 > max_len_token[1]
          /\ \E i \in 1..Len(tokens) : Len(tokens[i]) + 2 < max_len_token[1]
          /\ \A i \in 1..Len(tokens) : Len(ge_result.windows[i]) = max_len_token[1]

\* C10: get_example with an index >= the number of stored sentences returns
\* an error value (no panic, no example of another index), and no step
\* changes the builder.
C10_IndexError ==
    /\ []((GeCalled /\ ~GeInRange) => ge_result.kind = "Err")
    /\ [][UNCHANGED <<examples, token2int, max_len_token>>]_vars

C10_Witness ==
    /\ GeCalled /\ ge_index >= Len(examples) /\ Len(examples) >= 1
    /\ ge_result.kind = "Err"

\* C11: with max_len_token unset, get_example on an in-range index returns
\* a configuration error as an error value, before any per-token tensor
\* (character window) has been built.  Stated for sentences of two or more
\* tokens, where the missing max_len_token is the only thing that can fail.
C11_ConfigErrorFirst ==
    (GeCalled /\ GeInRange /\ max_len_token = None /\ NumTokens(GeSentence) >= 2) =>
        /\ ge_result.kind = "Err"
        /\ ge_result.windows = <<>>

\* the id of a character, unknown-character id when it has no entry
CharId(c) == IF c \in DOMAIN char2int THEN char2int[c] ELSE char2int[char_unk]

\* C12: the window of a token c_1..c_m is the first max_len_token elements
\* of [id(start), id(c_1), .., id(c_m), id(end), pad, pad, ..]: truncation
\* keeps the prefix and padding is appended on the right only.
C12_WindowContents ==
    (GeCalled /\ GeInRange /\ max_len_token # None) =>
        LET tokens == tokens_of(GeSentence) IN
        /\ Len(ge_result.windows) = Len(tokens)
        /\ \A i \in 1..Len(tokens) :
              /\ Len(ge_result.windows[i]) = max_len_token[1]
              /\ \A j \in 1..max_len_token[1] :
                    ge_result.windows[i][j] =
                       (IF j = 1 THEN CharId(char_start)
                        ELSE IF j <= Len(tokens[i]) + 1 THEN CharId(tokens[i][j - 1])
                        ELSE IF j = Len(tokens[i]) + 2 THEN CharId(char_end)
                        ELSE CharId(char_pad))

\* "aa " with max_len_token = 3: "$aa^" is cut to its prefix, "$^" is padded
C12_Witness ==
    /\ GeCalled /\ GeInRange /\ ge_result.kind = "Ok"
    /\ GeSentence = <<"a", "a", " ">>
    /\ max_len_token = Some(3)
    /\ ge_result.windows = << <<2, 1, 1>>, <<2, 3, 0>> >>

(***************************************************************************)
(* Properties of the Splitter                                              *)
(***************************************************************************)
SplitCalled == split_call # "none"
Elems(q)    == {q[i] : i \in 1..Len(q)}

\* C5: for every n_samples > 0 the split returns three index subsets whose
\* sizes sum to n_samples, that are pairwise disjoint and whose union is
\* {0, ..., n_samples-1}.
C5_SplitPartition ==
    (SplitCalled /\ n_samples > 0) =>
        /\ split_result.kind = "Ok"
        /\ Len(split_result.parts) = 3
        /\ Len(split_result.parts[1]) + Len(split_result.parts[2])
              + Len(split_result.parts[3]) = n_samples
        /\ \A j, k \in 1..3 :
              j # k => Elems(split_result.parts[j]) \cap Elems(split_result.parts[k]) = {}
        /\ UNION {Elems(split_result.parts[k]) : k \in 1..3} = 0..(n_samples - 1)

\* C6: for every n_samples > 0 the sizes are floor(0.8 n), floor(0.1 n) and
\* the remainder, in that order, each >= 0; n_samples = 10 gives [8,1,1].
C6_SplitSizes ==
    (SplitCalled /\ n_samples > 0) =>
        /\ split_result.sizes = << (8 * n_samples) \div 10, n_samples \div 10,
                                   n_samples - ((8 * n_samples) \div 10) - (n_samples \div 10) >>
        /\ \A k \in 1..3 : split_result.sizes[k] >= 0
        /\ n_samples = 10 => split_result.sizes = <<8, 1, 1>>

C6_Witness ==
    /\ SplitCalled /\ n_samples = 10 /\ split_result.kind = "Ok"
    /\ split_result.sizes = <<8, 1, 1>>
    /\ Len(split_result.parts[1]) = 8

(***************************************************************************)
(* Properties of the Loader                                                *)
(***************************************************************************)
\* the multiset of (input, label) pairs of two parallel lists
PairBag(a, b) ==
    LET S == {<<a[i], b[i]>> : i \in 1..Len(a)}
    IN  [p \in S |-> Cardinality({i \in 1..Len(a) : <<a[i], b[i]>> = p})]

\* C7: after any number of shuffle calls the multiset of (input,label)
\* pairs equals the one given to Loader::new, so every label is still next
\* to the input it was paired with.
C7_ShuffleBijection ==
    /\ Len(xs) = Len(xs0) /\ Len(ys) = Len(xs)
    /\ PairBag(xs, ys) = PairBag(xs0, ys0)

C7_Witness ==
    /\ Len(xs) >= 2 /\ xs # xs0 /\ ys # ys0
    /\ PairBag(xs, ys) = PairBag(xs0, ys0)

\* C8: every call to next after the n-th returns None and no call to next
\* ends in an out-of-bounds fault.
C8_CleanExhaustion ==
    /\ last_ret # "panic"
    /\ current_index >= Len(xs) => last_ret = "none"

\* C9: without a shuffle during iteration, the i-th call to next
\* (1 <= i <= n) returns the pair at position i-1 of the current order.
C9_InOrder ==
    ~shuffled_in_iter =>
        /\ Len(returned) = (IF current_index + 1 <= Len(xs) THEN current_index + 1 ELSE Len(xs))
        /\ \A i \in 1..Len(returned) : returned[i] = <<xs[i], ys[i]>>
        /\ (0 <= current_index /\ current_index < Len(xs)) => last_ret = "some"

C9_Witness ==
    /\ ~shuffled_in_iter /\ last_ret = "some"
    /\ Len(xs) >= 2 /\ Len(returned) = Len(xs)
    /\ \A i \in 1..Len(xs) : returned[i] = <<xs[i], ys[i]>>

\* C15: shuffle changes only the order of the two lists: the position
\* counter and the two lengths stay as they are, so iteration is not
\* restarted (the counter always equals the number of calls made so far)
\* and the call after a shuffle returns the pair at the next position of
\* the new order.
C15_ShuffleFrame ==
    /\ [](Len(xs) = Len(ys) /\
          Len(returned) = (IF current_index + 1 <= Len(xs) THEN current_index + 1 ELSE Len(xs)))
    /\ [][shuffle => /\ current_index' = current_index
                     /\ Len(xs') = Len(xs) /\ Len(ys') = Len(ys)
                     /\ returned' = returned]_vars
    /\ [][Len(returned') = Len(returned) + 1 =>
             returned'[Len(returned')] = <<xs[Len(returned) + 1], ys[Len(returned) + 1]>>]_vars

\* a shuffle after the first call changed the order, and the call after it
\* returned the pair at its position in the new order
C15_Witness ==
    /\ shuffled_in_iter /\ last_ret = "some"
    /\ current_index >= 1 /\ Len(returned) = current_index + 1
    /\ xs # xs0
    /\ returned[current_index + 1] = <<xs[current_index + 1], ys[current_index + 1]>>
    /\ returned[1] # <<xs[1], ys[1]>>

(***************************************************************************)
(* Properties of the sequence encoder                                      *)
(***************************************************************************)
\* C13: a forward call goes through layers 0..N-1 in order, once each, and
\* its result holds exactly N per-layer outputs, one per recurrent layer,
\* each with the shape of the encoder input.
C13_LayerOutputs ==
    fw.pc = "done" =>
        /\ Len(fw.starts) = lm.n_lstm_layers
        /\ \A k \in 1..Len(fw.starts) : fw.starts[k].layer = k - 1
        /\ Len(fw.result.blocks) = lm.n_lstm_layers
        /\ \A k \in 1..Len(fw.result.blocks) :
              /\ fw.result.blocks[k].layer = k - 1
              /\ fw.result.blocks[k].shape = fw.xs.shape

\* C14: in every forward call each recurrent layer starts its run from the
\* all-zero state, never from the final state of an earlier layer or call.
C14_ZeroStatePerLayer ==
    \A k \in 1..Len(fw.starts) : fw.starts[k].state = ZeroState

====
